---------------------------- MODULE Spec2Model ----------------------------
(***************************************************************************)
(* A model of the Golomb-coded set filter of cfnode                        *)
(* (src/node_modules/golomb/lib/golomb.js): the filter object's fields,    *)
(* the build, the four wire layouts, the queries and the header chain.     *)
(*                                                                         *)
(* U64 values are naturals.  The library's 64-bit arithmetic wraps at      *)
(* 2^64; every value the bounded inputs below can produce stays under      *)
(* 2^31, where the wrap is the identity.                                   *)
(***************************************************************************)
EXTENDS Integers, Sequences, FiniteSets, TLC

(***************************************************************************)
(* Bounds of the model.                                                    *)
(***************************************************************************)
\* longest item list handed to fromItems, longest target list of matchAny
MaxItems == 2
\* largest value the keyed hash reduction gives an item
MaxHash == 1
\* longest caller-made byte buffer handed to a deserializer
MaxBuf == 1
\* item count of the one large item list (the first 3-byte varint)
BigN == 253
MaxHeight == 4

(***************************************************************************)
(* Program constants.                                                      *)
(***************************************************************************)
\* const M = new U64(784931)
M == 784931
\* const EOF = new U64(-1)
EOF == -1
\* const DUMMY = Buffer.alloc(0)
DUMMY == <<>>
\* assert(P >= 0 && P <= 32)
MaxP == 32
\* assert(key.length === 16)
KeyLen == 16
\* toRaw / fromRaw: the fixed P of the network layout
RawP == 19

(***************************************************************************)
(* Inputs.                                                                 *)
(***************************************************************************)
\* the items are numbered byte strings
Items == {1, 2, 3}
\* a 16-byte key and a 15-byte one
Keys == {"k16", "k15"}
keyLength(key) == IF key = "k16" THEN KeyLen ELSE KeyLen - 1
\* P as callers pass it: below, inside and above 0..32
PVals == {-1, 0, 1, RawP, MaxP, MaxP + 1}
\* an iterable of 2^32 distinct buffers, known only by its size: the one
\* input that fails assert(items.size <= 0xffffffff)
HugeItems == <<0>>

RECURSIVE SeqsUpTo(_, _)
SeqsUpTo(S, k) ==
  IF k = 0 THEN {<<>>}
  ELSE LET shorter == SeqsUpTo(S, k - 1)
       IN shorter \cup {Append(s, x) : s \in {t \in shorter : Len(t) = k - 1}, x \in S}

ItemLists == SeqsUpTo(Items, MaxItems)
\* the calls of fromItems: the valid ones, and calls with one bad argument
GoodCalls == {<<P, "k16", l>> : P \in PVals \cap 0..MaxP, l \in ItemLists}
BadCalls ==
  {<<P, "k16", <<1>>>> : P \in PVals \ 0..MaxP}
    \cup {<<RawP, "k15", <<1>>>>, <<RawP, "k16", HugeItems>>}
\* the one large item list
BigItems == [i \in 1..BigN |-> i]
BigCalls == {<<P, "k16", BigItems>> : P \in {0, RawP}}
\* caller-made buffers
ArbBytes == {0, 90, 127}
ArbBufs == SeqsUpTo(ArbBytes, MaxBuf)
\* P as callers pass it to the deserializers
PLoad == {0, 1, RawP, MaxP + 1}
\* N as callers pass it to fromBytes and fromPBytes
NVals == 0..MaxItems
\* the 32-byte previous headers of a chain
PrevHeaders == {"zero32", "prev32"}

(***************************************************************************)
(* Small arithmetic of U64 (n64): imaskn, ishrn, ishln, bit tests.         *)
(***************************************************************************)
Pow2(k) == 2 ^ k
\* U64.imaskn(p): keep the low p bits
imaskn(v, bits) == IF bits >= 31 THEN v ELSE v % Pow2(bits)
\* U64.ishrn(p)
ishrn(v, bits) == IF bits >= 31 THEN 0 ELSE v \div Pow2(bits)
\* U64.ishln(p)
ishln(v, bits) == IF v = 0 THEN 0 ELSE v * Pow2(bits)
bitOf(v, i) == IF i >= 31 THEN 0 ELSE (v \div Pow2(i)) % 2

(***************************************************************************)
(* BitWriter: bits are appended MSB-first; render() zero-pads the last     *)
(* byte.                                                                   *)
(***************************************************************************)
\* the run of 1 bits without the closing writeBit(0)
writeUnary_NoStop(value) == [i \in 1..value |-> 1]

\* writeBit(1) value times, then writeBit(0)
writeUnary(value) == [i \in 1..(value + 1) |-> IF i <= value THEN 1 ELSE 0]
\* writeBits64(rem, count): the low count bits, highest first
writeBits64(rem, count) ==
  IF count = 0 THEN <<>> ELSE [i \in 1..count |-> bitOf(rem, count - i)]

byteOf(bits, k) ==
  LET b(j) == IF 8 * k + j <= Len(bits) THEN bits[8 * k + j] ELSE 0
  IN 128 * b(1) + 64 * b(2) + 32 * b(3) + 16 * b(4) + 8 * b(5) + 4 * b(6) + 2 * b(7) + b(8)
render(bits) ==
  IF Len(bits) = 0 THEN <<>>
  ELSE [k \in 1..((Len(bits) + 7) \div 8) |-> byteOf(bits, k - 1)]

(***************************************************************************)
(* BitReader over a byte buffer; pos counts the bits consumed.             *)
(***************************************************************************)
bitAt(data, pos) == (data[(pos \div 8) + 1] \div Pow2(7 - (pos % 8))) % 2
atEnd(data, pos) == pos >= 8 * Len(data)

\* the run of 1 bits from pos: its length, or -1 when the buffer ends first
RECURSIVE unaryRun(_, _, _)
unaryRun(data, pos, num) ==
  IF atEnd(data, pos) THEN -1
  ELSE IF bitAt(data, pos) = 1 THEN unaryRun(data, pos + 1, num + 1)
  ELSE num

\* readBits64(count): -1 when the buffer ends inside the field
RECURSIVE readBits64(_, _, _, _)
readBits64(data, pos, count, acc) ==
  IF count = 0 THEN acc
  ELSE IF atEnd(data, pos) THEN -1
  ELSE readBits64(data, pos + 1, count - 1, 2 * acc + bitAt(data, pos))

\* _readU64 inside readU64's try/catch: the entry and the reader's new
\* position, or eof (the shared EOF object is returned)
readU64(data, pos, p) ==
  LET num == unaryRun(data, pos, 0)
      rem == IF num < 0 THEN -1 ELSE readBits64(data, pos + num + 1, p, 0)
  IN IF num < 0 \/ rem < 0
     THEN [eof |-> TRUE, value |-> 0, pos |-> pos]
     ELSE [eof |-> FALSE, value |-> ishln(num, p) + rem, pos |-> pos + num + 1 + p]

(***************************************************************************)
(* BufferSet: the distinct items, in first-insertion order.                *)
(***************************************************************************)
\* a list kept as given, its repetitions included
BufferSet_KeepsRepeats(items) == items

RECURSIVE BufferSet(_)
BufferSet(items) ==
  IF Len(items) <= 1 THEN items
  ELSE LET half == Len(items) \div 2
           front == BufferSet(SubSeq(items, 1, half))
           back == BufferSet(SubSeq(items, half + 1, Len(items)))
           seen == {front[i] : i \in 1..Len(front)}
       IN front \o SelectSeq(back, LAMBDA x : x \notin seen)

\* values.sort(compare): ascending, equal values kept.  The k-th entry is
\* the value with fewer than k values below it and at least k not above it.
sort(s) ==
  LET below(v) == Cardinality({j \in 1..Len(s) : s[j] < v})
      upTo(v) == Cardinality({j \in 1..Len(s) : s[j] <= v})
  IN [k \in 1..Len(s) |->
        CHOOSE v \in {s[j] : j \in 1..Len(s)} : below(v) < k /\ k <= upTo(v)]

\* the heights of the entries the chain connects
Heights == 1..MaxHeight

(***************************************************************************)
(* State.                                                                  *)
(***************************************************************************)
VARIABLES
  n,        \* this.n
  p,        \* this.p
  m,        \* this.m
  data,     \* this.data, a sequence of bytes
  Mobj,     \* the value held by the module's shared U64 M
  EOFobj,   \* the value held by the module's shared U64 EOF
  sip,      \* the keyed hash of each item under the 16-byte key
  built,    \* what the filter was last built from, or the way it was loaded
  op,       \* the last call on the filter and what it gave back
  q,        \* the locals of the match or matchAny call that is running
  rescanJob,  \* FilterNode.rescanJob: null, or the job and its height
  promise,    \* the promise of watchUntil: the calls of resolve and reject
  watchLock,  \* FilterNode.watchLock: busy, and the calls waiting in line
  calls,      \* the 'connect' handler's run for the entry of each height
  tip,        \* the height of the last entry the chain connected
  faults      \* property reads and method calls made on a null rescanJob

nodeVars == <<rescanJob, promise, watchLock, calls, tip, faults>>
vars == <<n, p, m, data, Mobj, EOFobj, sip, built, op, q, nodeVars>>
filter == <<n, p, m, data>>

\* siphash(item, key) as a fraction of 2^64, in units of 1/M: the 64-bit
\* hash of item x under the 16-byte key is sip[x] * 2^64 / M.  The hashes
\* of the items of the large list are fixed.
siphash(item, key) == IF item \in Items THEN sip[item] ELSE item % (MaxHash + 1)

\* sipmod64(data, key, m): (siphash(data, key) * m) >> 64
sipmod64(item, key, mod) == (siphash(item, key) * mod) \div M

NoOp == [name |-> "new", threw |-> FALSE, ret |-> FALSE, reads |-> 0,
         key |-> "k16", items |-> <<>>, out |-> <<>>, P |-> 0, digest |-> <<>>]

call(name) == [NoOp EXCEPT !.name = name]

(***************************************************************************)
(* fromItems                                                               *)
(***************************************************************************)
\* one entry of the loop: the unary quotient, then the remainder
encodeDelta(delta, P) ==
  LET rem == imaskn(delta, P)
      value == ishrn(delta - rem, P)
  IN writeUnary(value) \o writeBits64(rem, P)

RECURSIVE encodeValues(_, _, _)
encodeValues(values, last, P) ==
  IF Len(values) = 0 THEN <<>>
  ELSE IF Len(values) = 1 THEN encodeDelta(values[1] - last, P)
  ELSE LET half == Len(values) \div 2
       IN encodeValues(SubSeq(values, 1, half), last, P)
            \o encodeValues(SubSeq(values, half + 1, Len(values)), values[half], P)

\* the checks without the one on the key's length
fromItemsRejects_NoKeyCheck(P, key, items) ==
  \/ ~(P >= 0 /\ P <= MaxP)
  \/ items = HugeItems

\* the checks of lines 173-181
fromItemsRejects(P, key, items) ==
  \/ ~(P >= 0 /\ P <= MaxP)
  \/ keyLength(key) # KeyLen
  \/ items = HugeItems

\* the fields after lines 183-217
fromItemsFields(P, key, items, Mval) ==
  LET set == BufferSet(items)
      size == Len(set)
      mod == Mval * size
      values == sort([i \in 1..size |-> sipmod64(set[i], key, mod)])
  IN [n |-> size, p |-> P, m |-> mod, data |-> render(encodeValues(values, 0, P)),
      M |-> Mval]

FromItems(P, key, items) ==
  /\ IF fromItemsRejects(P, key, items)
     THEN /\ UNCHANGED <<n, p, m, data, Mobj, built>>
          /\ op' = [call("fromItems") EXCEPT !.threw = TRUE, !.P = P, !.key = key,
                                                !.items = items]
     ELSE \E f \in {fromItemsFields(P, key, items, Mobj)} :
             /\ n' = f.n /\ p' = f.p /\ m' = f.m /\ data' = f.data /\ Mobj' = f.M
             /\ built' = [how |-> "items", key |-> key,
                          items |-> {items[i] : i \in 1..Len(items)}]
             /\ op' = [call("fromItems") EXCEPT !.P = P, !.key = key, !.items = items]
  /\ UNCHANGED <<EOFobj, sip, q, nodeVars>>

(***************************************************************************)
(* match                                                                   *)
(***************************************************************************)
RECURSIVE matchLoop(_, _, _, _, _, _)
matchLoop(f, term, last, pos, reads, eofv) ==
  IF ~(last < term) THEN [ret |-> FALSE, reads |-> reads, EOF |-> eofv]
  ELSE LET r == readU64(f.data, pos, f.p)
       IN IF r.eof THEN [ret |-> FALSE, reads |-> reads + 1, EOF |-> eofv]
          ELSE LET value == r.value + last
               IN IF value = term
                  THEN [ret |-> TRUE, reads |-> reads + 1, EOF |-> eofv]
                  ELSE matchLoop(f, term, value, r.pos, reads + 1, eofv)

\* the loop with value.iadd(last) ahead of the test for EOF: the shared EOF
\* object takes the sum
RECURSIVE matchLoop_AddsFirst(_, _, _, _, _, _)
matchLoop_AddsFirst(f, term, last, pos, reads, eofv) ==
  IF ~(last < term) THEN [ret |-> FALSE, reads |-> reads, EOF |-> eofv]
  ELSE LET r == readU64(f.data, pos, f.p)
       IN IF r.eof THEN [ret |-> FALSE, reads |-> reads + 1, EOF |-> eofv + last]
          ELSE LET value == r.value + last
               IN IF value = term
                  THEN [ret |-> TRUE, reads |-> reads + 1, EOF |-> eofv]
                  ELSE matchLoop_AddsFirst(f, term, value, r.pos, reads + 1, eofv)

match_AddsFirst(f, key, item, eofv) ==
  matchLoop_AddsFirst(f, sipmod64(item, key, f.m), 0, 0, 0, eofv)

match(f, key, item, eofv) == matchLoop(f, sipmod64(item, key, f.m), 0, 0, 0, eofv)

this == [n |-> n, p |-> p, m |-> m, data |-> data]

Match(key, item) ==
  \E r \in {match(this, key, item, EOFobj)} :
     /\ op' = [call("match") EXCEPT !.ret = r.ret, !.reads = r.reads, !.key = key,
                                    !.items = <<item>>]
     /\ EOFobj' = r.EOF
     /\ UNCHANGED <<n, p, m, data, Mobj, sip, built, q, nodeVars>>

(***************************************************************************)
(* matchAny                                                                *)
(***************************************************************************)
RECURSIVE matchAnyLoop(_, _, _, _, _, _, _)
matchAnyLoop(f, values, last1, last2, i, pos, reads) ==
  IF last1 = last2 THEN [ret |-> TRUE, reads |-> reads]
  ELSE IF last1 > last2
  THEN IF i <= Len(values)
       THEN matchAnyLoop(f, values, last1, values[i], i + 1, pos, reads)
       ELSE [ret |-> FALSE, reads |-> reads]
  ELSE LET r == readU64(f.data, pos, f.p)
       IN IF r.eof THEN [ret |-> FALSE, reads |-> reads + 1]
          ELSE matchAnyLoop(f, values, last1 + r.value, last2, i, r.pos, reads + 1)

\* lines 79-116, for a non-empty target set
matchAny(f, key, items) ==
  LET set == BufferSet(items)
      values == sort([i \in 1..Len(set) |-> sipmod64(set[i], key, f.m)])
  IN matchAnyLoop(f, values, 0, values[1], 2, 0, 0)

MatchAny(key, items) ==
  /\ IF ~(Len(BufferSet(items)) > 0)
     THEN op' = [call("matchAny") EXCEPT !.threw = TRUE, !.key = key, !.items = items]
     ELSE \E r \in {matchAny(this, key, items)} :
            op' = [call("matchAny") EXCEPT !.ret = r.ret, !.reads = r.reads,
                                           !.key = key, !.items = items]
  /\ UNCHANGED <<n, p, m, data, Mobj, EOFobj, sip, built, q, nodeVars>>

(***************************************************************************)
(* match and matchAny one loop iteration at a time: q holds the locals of  *)
(* the running call (for match, last in last1 and term in last2), where    *)
(* the reader stands, and what the call gave back once it is over.         *)
(***************************************************************************)
NoQuery == [pc |-> "idle", kind |-> "none", values |-> <<>>, last1 |-> 0, last2 |-> 0,
            i |-> 0, pos |-> 0, reads |-> 0, ret |-> FALSE, error |-> "none",
            eof |-> "none"]

\* where the reader ran out of data: in the run of 1 bits or in the field
eofPlace(buf, pos) == IF unaryRun(buf, pos, 0) < 0 THEN "unary" ELSE "field"

\* return v
returned(s, v) == [s EXCEPT !.pc = "done", !.ret = v]

\* lines 53-56
matchStart(f, key, item) ==
  [NoQuery EXCEPT !.pc = "running", !.kind = "match",
                  !.last2 = sipmod64(item, key, f.m)]

\* an iteration that lets the reader's EOF error out of readU64
matchStep_Rethrows(f, s) ==
  IF ~(s.last1 < s.last2) THEN returned(s, FALSE)
  ELSE LET r == readU64(f.data, s.pos, f.p)
       IN IF r.eof
          THEN [s EXCEPT !.pc = "done", !.error = "EOF", !.reads = @ + 1,
                         !.eof = eofPlace(f.data, s.pos)]
          ELSE IF r.value + s.last1 = s.last2
          THEN [returned(s, TRUE) EXCEPT !.reads = @ + 1]
          ELSE [s EXCEPT !.last1 = r.value + s.last1, !.pos = r.pos, !.reads = @ + 1]

\* one test of the while condition and one pass of its body, lines 58-72
matchStep(f, s) ==
  IF ~(s.last1 < s.last2) THEN returned(s, FALSE)
  ELSE LET r == readU64(f.data, s.pos, f.p)
       IN IF r.eof
          THEN [returned(s, FALSE) EXCEPT !.reads = @ + 1,
                                          !.eof = eofPlace(f.data, s.pos)]
          ELSE IF r.value + s.last1 = s.last2
          THEN [returned(s, TRUE) EXCEPT !.reads = @ + 1]
          ELSE [s EXCEPT !.last1 = r.value + s.last1, !.pos = r.pos, !.reads = @ + 1]

\* lines 76-91; the assert of line 77 throws on an empty target set
matchAnyStart(f, key, items) ==
  LET set == BufferSet(items)
      values == sort([i \in 1..Len(set) |-> sipmod64(set[i], key, f.m)])
  IN IF ~(Len(set) > 0)
     THEN [NoQuery EXCEPT !.pc = "done", !.kind = "matchAny", !.error = "assert"]
     ELSE [NoQuery EXCEPT !.pc = "running", !.kind = "matchAny", !.values = values,
                          !.last2 = values[1], !.i = 2]

\* one pass of the for (;;) body, lines 93-116
matchAnyStep(f, s) ==
  IF s.last1 = s.last2 THEN returned(s, TRUE)
  ELSE IF s.last1 > s.last2
  THEN IF s.i <= Len(s.values)
       THEN [s EXCEPT !.last2 = s.values[s.i], !.i = @ + 1]
       ELSE returned(s, FALSE)
  ELSE LET r == readU64(f.data, s.pos, f.p)
       IN IF r.eof
          THEN [returned(s, FALSE) EXCEPT !.reads = @ + 1,
                                          !.eof = eofPlace(f.data, s.pos)]
          ELSE [s EXCEPT !.last1 = @ + r.value, !.pos = r.pos, !.reads = @ + 1]

\* a call starts when no call is running: the code is synchronous
StartMatch(key, item) ==
  /\ q.pc = "idle"
  /\ q' = matchStart(this, key, item)
  /\ UNCHANGED <<n, p, m, data, Mobj, EOFobj, sip, built, op, nodeVars>>

StartMatchAny(key, items) ==
  /\ q.pc = "idle"
  /\ q' = matchAnyStart(this, key, items)
  /\ UNCHANGED <<n, p, m, data, Mobj, EOFobj, sip, built, op, nodeVars>>

StepMatch ==
  /\ q.pc = "running" /\ q.kind = "match"
  /\ q' = matchStep(this, q)
  /\ UNCHANGED <<n, p, m, data, Mobj, EOFobj, sip, built, op, nodeVars>>

StepMatchAny ==
  /\ q.pc = "running" /\ q.kind = "matchAny"
  /\ q' = matchAnyStep(this, q)
  /\ UNCHANGED <<n, p, m, data, Mobj, EOFobj, sip, built, op, nodeVars>>

\* the caller has the result or the error of the call that ended
Return ==
  /\ q.pc = "done"
  /\ q' = NoQuery
  /\ UNCHANGED <<n, p, m, data, Mobj, EOFobj, sip, built, op, nodeVars>>

(***************************************************************************)
(* Serializers.                                                            *)
(***************************************************************************)
\* bufio writeVarint: one byte below 0xfd, else 0xfd and two bytes, else
\* 0xfe and four bytes, little-endian (the 0xff form needs a value above
\* 2^32 - 1)
writeVarint(v) ==
  IF v < 253 THEN <<v>>
  ELSE IF v <= 65535 THEN <<253, v % 256, v \div 256>>
  ELSE <<254, v % 256, (v \div 256) % 256, (v \div 65536) % 256, v \div 16777216>>

writeUInt32BE(v) ==
  <<v \div 16777216, (v \div 65536) % 256, (v \div 256) % 256, v % 256>>

toBytes(f) == f.data
\* the data alone, without the count
toNBytes_NoCount(f) == f.data
toNBytes(f) == writeVarint(f.n) \o f.data
toPBytes(f) == <<f.p>> \o f.data
toNPBytes(f) == writeUInt32BE(f.n) \o <<f.p>> \o f.data

returns(name, bytes) ==
  /\ op' = [call(name) EXCEPT !.out = bytes]
  /\ UNCHANGED <<n, p, m, data, Mobj, EOFobj, sip, built, q, nodeVars>>

ToBytes == returns("toBytes", toBytes(this))
ToNBytes == returns("toNBytes", toNBytes(this))
ToPBytes == returns("toPBytes", toPBytes(this))
ToNPBytes == returns("toNPBytes", toNPBytes(this))

ToRaw ==
  IF ~(p = RawP)
  THEN /\ op' = [call("toRaw") EXCEPT !.threw = TRUE]
       /\ UNCHANGED <<n, p, m, data, Mobj, EOFobj, sip, built, q, nodeVars>>
  ELSE returns("toRaw", toNBytes(this))

(***************************************************************************)
(* hash and header.  hash256 is double SHA-256, taken as injective: the    *)
(* digest of a message is the message under a tag.                         *)
(***************************************************************************)
hash256(msg) == [sha256d |-> msg]
\* hash256.root(left, right): the digest of the two 32-byte strings joined
root(left, right) == hash256(<<left, right>>)

hash(f) == hash256(toNBytes(f))
header(f, prev) == root(hash(f), prev)

Hash ==
  /\ op' = [call("hash") EXCEPT !.digest = <<hash(this)>>]
  /\ UNCHANGED <<n, p, m, data, Mobj, EOFobj, sip, built, q, nodeVars>>

Header(prev) ==
  /\ op' = [call("header") EXCEPT !.digest = <<header(this, prev), prev>>]
  /\ UNCHANGED <<n, p, m, data, Mobj, EOFobj, sip, built, q, nodeVars>>

(***************************************************************************)
(* Deserializers.                                                          *)
(***************************************************************************)
\* Buffer.slice(k)
slice(buf, k) == SubSeq(buf, k + 1, Len(buf))

rejected(name) ==
  /\ op' = [call(name) EXCEPT !.threw = TRUE]
  /\ UNCHANGED <<n, p, m, data, Mobj, EOFobj, sip, built, q, nodeVars>>

\* lines 223-233
fromBytes(N, P, buf, Mval) ==
  IF ~(P >= 0 /\ P <= MaxP) THEN [ok |-> FALSE]
  ELSE [ok |-> TRUE, n |-> N, p |-> P, m |-> Mval * N, data |-> buf]

loaded(name, r) ==
  IF ~r.ok THEN rejected(name)
  ELSE /\ n' = r.n /\ p' = r.p /\ m' = r.m /\ data' = r.data
       /\ built' = [how |-> "bytes", key |-> "k16", items |-> {}]
       /\ op' = call(name)
       /\ UNCHANGED <<Mobj, EOFobj, sip, q, nodeVars>>

FromBytes(N, P, buf) == \E r \in {fromBytes(N, P, buf, Mobj)} : loaded("fromBytes", r)

\* bufio readVarint: the value and the bytes it takes, or a failure when
\* the buffer is too short
readVarint(buf) ==
  IF Len(buf) = 0 THEN [ok |-> FALSE]
  ELSE IF buf[1] < 253 THEN [ok |-> TRUE, value |-> buf[1], size |-> 1]
  ELSE IF buf[1] = 253
  THEN IF Len(buf) < 3 THEN [ok |-> FALSE]
       ELSE [ok |-> TRUE, value |-> buf[2] + 256 * buf[3], size |-> 3]
  ELSE IF buf[1] = 254
  THEN IF Len(buf) < 5 THEN [ok |-> FALSE]
       ELSE [ok |-> TRUE, size |-> 5,
             value |-> buf[2] + 256 * buf[3] + 65536 * buf[4] + 16777216 * buf[5]]
  ELSE [ok |-> FALSE]

\* lines 237-240
fromNBytes(P, buf, Mval) ==
  LET N == readVarint(buf)
  IN IF ~N.ok THEN [ok |-> FALSE] ELSE fromBytes(N.value, P, slice(buf, 1), Mval)

FromNBytes(P, buf) == \E r \in {fromNBytes(P, buf, Mobj)} : loaded("fromNBytes", r)

\* lines 244-250
fromPBytes(N, buf, Mval) ==
  IF ~(Len(buf) >= 1) THEN [ok |-> FALSE]
  ELSE fromBytes(N, buf[1], slice(buf, 1), Mval)

FromPBytes(N, buf) == \E r \in {fromPBytes(N, buf, Mobj)} : loaded("fromPBytes", r)

readUInt32BE(buf) == 16777216 * buf[1] + 65536 * buf[2] + 256 * buf[3] + buf[4]

\* lines 254-260
fromNPBytes(buf, Mval) ==
  IF ~(Len(buf) >= 5) THEN [ok |-> FALSE]
  ELSE fromBytes(readUInt32BE(buf), buf[5], slice(buf, 5), Mval)

FromNPBytes(buf) == \E r \in {fromNPBytes(buf, Mobj)} : loaded("fromNPBytes", r)

\* line 264
fromRaw(buf, Mval) == fromNBytes(RawP, buf, Mval)

FromRaw(buf) == \E r \in {fromRaw(buf, Mobj)} : loaded("fromRaw", r)

(***************************************************************************)
(* Specification.                                                          *)
(***************************************************************************)
(***************************************************************************)
(* FilterNode: the rescan job, watchUntil, the chain's 'connect' handler   *)
(* and watchBlock under watchLock.                                         *)
(***************************************************************************)
null == [job |-> FALSE, height |-> 0]
RescanJob(height) == [job |-> TRUE, height |-> height]

\* Lock.lock(): taken at once when free, else the call waits in line
lock(c) ==
  IF watchLock.busy
  THEN /\ watchLock' = [watchLock EXCEPT !.jobs = Append(@, c)]
       /\ calls' = [calls EXCEPT ![c] = "waiting"]
  ELSE /\ watchLock' = [watchLock EXCEPT !.busy = TRUE]
       /\ calls' = [calls EXCEPT ![c] = "granted"]

\* unlock() in the finally block of the call c, which ends in state pc:
\* the lock goes to the first call in line
unlock(c, pc) ==
  IF watchLock.jobs = <<>>
  THEN /\ watchLock' = [watchLock EXCEPT !.busy = FALSE]
       /\ calls' = [calls EXCEPT ![c] = pc]
  ELSE /\ watchLock' = [watchLock EXCEPT !.jobs = Tail(@)]
       /\ calls' = [calls EXCEPT ![c] = pc, ![Head(watchLock.jobs)] = "granted"]

\* watchUntil(height, iter): the promise's executor installs the job
WatchUntil(height) ==
  /\ ~promise.installed
  /\ rescanJob' = RescanJob(height)
  /\ promise' = [promise EXCEPT !.installed = TRUE]
  /\ UNCHANGED <<n, p, m, data, Mobj, EOFobj, sip, built, op, q>>
  /\ UNCHANGED <<watchLock, calls, tip, faults>>

\* the chain emits 'connect' for the next entry: with a job the handler
\* calls watchBlock, which asks for the lock; with none it re-emits
Connect ==
  /\ tip < MaxHeight
  /\ tip' = tip + 1
  /\ IF rescanJob.job
     THEN lock(tip + 1)
     ELSE /\ calls' = [calls EXCEPT ![tip + 1] = "emitted"]
          /\ UNCHANGED watchLock
  /\ UNCHANGED <<n, p, m, data, Mobj, EOFobj, sip, built, op, q>>
  /\ UNCHANGED <<rescanJob, promise, faults>>

\* watchBlock goes on with the lock: the try block up to its await or its
\* end; on a null rescanJob the read of .height throws, and so does the
\* call of .reject in the catch block, and the handler reports the error
Enter(c) ==
  /\ calls[c] = "granted"
  /\ IF ~rescanJob.job
     THEN /\ faults' = [height |-> faults.height + 1, reject |-> faults.reject + 1]
          /\ unlock(c, "threw")
          /\ UNCHANGED <<rescanJob, promise>>
     ELSE IF c < rescanJob.height
     THEN /\ calls' = [calls EXCEPT ![c] = "iter"]
          /\ UNCHANGED <<rescanJob, promise, watchLock, faults>>
     ELSE /\ promise' = [promise EXCEPT !.resolves = @ + 1]
          /\ rescanJob' = null
          /\ unlock(c, "done")
          /\ UNCHANGED faults
  /\ UNCHANGED <<n, p, m, data, Mobj, EOFobj, sip, built, op, q>>
  /\ UNCHANGED tip

\* the awaited iter ends well: return, and the finally block unlocks
IterReturns(c) ==
  /\ calls[c] = "iter"
  /\ unlock(c, "done")
  /\ UNCHANGED <<n, p, m, data, Mobj, EOFobj, sip, built, op, q>>
  /\ UNCHANGED <<rescanJob, promise, tip, faults>>

\* the awaited iter throws: the catch block rejects and drops the job
IterThrows(c) ==
  /\ calls[c] = "iter"
  /\ IF ~rescanJob.job
     THEN /\ faults' = [faults EXCEPT !.reject = @ + 1]
          /\ unlock(c, "threw")
          /\ UNCHANGED <<rescanJob, promise>>
     ELSE /\ promise' = [promise EXCEPT !.rejects = @ + 1]
          /\ rescanJob' = null
          /\ unlock(c, "done")
          /\ UNCHANGED faults
  /\ UNCHANGED <<n, p, m, data, Mobj, EOFobj, sip, built, op, q>>
  /\ UNCHANGED tip

\* The state after new Golomb().  A hash table is taken up to a renaming of
\* the items: the items are interchangeable, so the tables are the
\* non-decreasing ones.
Init ==
  /\ n = 0 /\ p = 0 /\ m = M /\ data = DUMMY
  /\ Mobj = M /\ EOFobj = EOF
  /\ sip \in {t \in [Items -> 0..MaxHash] : t[1] <= t[2] /\ t[2] <= t[3]}
  /\ built = [how |-> "new", key |-> "k16", items |-> {}]
  /\ op = NoOp
  /\ q = NoQuery
  /\ rescanJob = null
  /\ promise = [installed |-> FALSE, resolves |-> 0, rejects |-> 0]
  /\ watchLock = [busy |-> FALSE, jobs |-> <<>>]
  /\ calls = [c \in Heights |-> "none"]
  /\ tip = 0
  /\ faults = [height |-> 0, reject |-> 0]

\* the bytes the last call returned, when it was the serializer named, of
\* a filter that was not itself loaded from bytes
wire(name) ==
  IF op.name = name /\ ~op.threw /\ built.how # "bytes" THEN {op.out} ELSE {}

Build == \E c \in GoodCalls \cup BadCalls : FromItems(c[1], c[2], c[3])
\* the static fromItems, new this().fromItems(...), with the large list
BuildBig == op.name = "new" /\ \E c \in BigCalls : FromItems(c[1], c[2], c[3])
Query ==
  \/ \E item \in Items : Match("k16", item)
  \/ \E items \in ItemLists : MatchAny("k16", items)
Commit ==
  \/ Hash
  \/ \E prev \in PrevHeaders : Header(prev)
Serialize ==
  \/ ToBytes
  \/ ToNBytes
  \/ ToPBytes
  \/ ToNPBytes
  \/ ToRaw
LoadBytes ==
  \E N \in NVals, P \in PLoad, buf \in ArbBufs : FromBytes(N, P, buf)
LoadWire ==
  \/ \E P \in PLoad, buf \in ArbBufs \cup wire("toNBytes") : FromNBytes(P, buf)
  \/ \E N \in NVals, buf \in ArbBufs \cup wire("toPBytes") : FromPBytes(N, buf)
  \/ \E buf \in ArbBufs \cup wire("toNPBytes") : FromNPBytes(buf)
  \/ \E buf \in ArbBufs \cup wire("toRaw") : FromRaw(buf)

\* every operation of the filter
Next == Build \/ Query \/ Commit \/ Serialize \/ LoadBytes \/ LoadWire
Spec == Init /\ [][Next]_vars

\* building, loading and querying
NextQuery == Build \/ LoadBytes \/ Query
SpecQuery == Init /\ [][NextQuery]_vars

\* building (the large list too), the wire layouts and the header chain
NextWire == Build \/ BuildBig \/ Serialize \/ Commit \/ LoadBytes \/ LoadWire
SpecWire == Init /\ [][NextWire]_vars

\* the node: one watchUntil, and the chain connecting its entries in order
\* while the runs of the 'connect' handler for earlier entries are under way
NextWatch ==
  \/ \E height \in Heights : WatchUntil(height)
  \/ Connect
  \/ \E c \in Heights : Enter(c)
  \/ \E c \in Heights : IterReturns(c)
  \/ \E c \in Heights : IterThrows(c)
SpecWatch == Init /\ [][NextWatch]_vars

\* loading a filter from a caller's bytes and running a query on it loop
\* iteration by loop iteration; a started call runs to its end
LoadIdle == q.pc = "idle" /\ LoadBytes
BuildIdle == q.pc = "idle" /\ \E c \in GoodCalls : FromItems(c[1], c[2], c[3])
StartQuery ==
  \/ \E item \in Items : StartMatch("k16", item)
  \/ \E items \in ItemLists : StartMatchAny("k16", items)
RunQuery == StepMatch \/ StepMatchAny
NextRun == LoadIdle \/ BuildIdle \/ StartQuery \/ RunQuery \/ Return
SpecRun == Init /\ [][NextRun]_vars /\ WF_vars(RunQuery)

(***************************************************************************)
(* Reference definitions for the properties: the entries a buffer decodes  *)
(* to, read to the end of the stream, and their running sums.              *)
(***************************************************************************)
RECURSIVE decodeFrom(_, _, _)
decodeFrom(buf, pos, P) ==
  LET r == readU64(buf, pos, P)
  IN IF r.eof THEN <<>> ELSE <<r.value>> \o decodeFrom(buf, r.pos, P)

RECURSIVE runningSums(_, _)
runningSums(deltas, last) ==
  IF Len(deltas) = 0 THEN <<>>
  ELSE <<last + deltas[1]>> \o runningSums(Tail(deltas), last + deltas[1])

sumsOf(f) == runningSums(decodeFrom(f.data, 0, f.p), 0)
setOf(list) == {list[i] : i \in 1..Len(list)}
builtFromItems == built.how = "items"

(***************************************************************************)
(* C1.  Membership soundness: on a filter built by fromItems, match under  *)
(* the same key returns true for every item of the set it was built from,  *)
(* whatever value in [0, m) the item hashes to, 0 included.                *)
(***************************************************************************)
C1_MembershipSoundness ==
  (op.name = "match" /\ builtFromItems /\ op.key = built.key
     /\ op.items[1] \in built.items)
    => op.ret = TRUE

(***************************************************************************)
(* C2.  Batch/single agreement: matchAny on a non-empty target set returns *)
(* true exactly when match returns true for at least one of the targets.   *)
(***************************************************************************)
C2_BatchSingleAgreement ==
  (op.name = "matchAny" /\ ~op.threw)
    => (op.ret <=> \E t \in setOf(op.items) : match(this, op.key, t, EOFobj).ret)

(***************************************************************************)
(* C3.  Empty set: a filter built from no items has n = 0 and no data, and *)
(* match and matchAny return false against it.                             *)
(***************************************************************************)
C3_EmptySet ==
  (builtFromItems /\ built.items = {})
    => /\ n = 0
       /\ Len(data) = 0
       /\ op.name = "match" => op.ret = FALSE
       /\ (op.name = "matchAny" /\ ~op.threw) => op.ret = FALSE

sameFilter(r) == r.ok /\ r.n = n /\ r.p = p /\ r.m = m /\ r.data = data

(***************************************************************************)
(* C4.  Round trip: the bytes a serializer returns for a built filter,     *)
(* handed to the deserializer of the same layout, give back the same n, p, *)
(* m and data, in each of the four layouts and for every item count.       *)
(***************************************************************************)
C4_RoundTrip ==
  (builtFromItems /\ ~op.threw)
    => /\ op.name = "toNBytes" => sameFilter(fromNBytes(p, op.out, Mobj))
       /\ op.name = "toPBytes" => sameFilter(fromPBytes(n, op.out, Mobj))
       /\ op.name = "toNPBytes" => sameFilter(fromNPBytes(op.out, Mobj))
       /\ op.name = "toRaw" => sameFilter(fromRaw(op.out, Mobj))

(***************************************************************************)
(* C9.  Modulus invariant: in every state of a filter object, from its     *)
(* construction on, m = n * 784931.                                        *)
(***************************************************************************)
C9_ModulusInvariant == m = n * 784931

(***************************************************************************)
(* C10.  Single match is exact at the hash level: match returns true       *)
(* exactly when the reduced hash of the target is one of the running sums  *)
(* of the deltas the data decodes to, and it decodes no entry after the    *)
(* first running sum that reaches the term.                                *)
(***************************************************************************)
C10_MatchExact ==
  op.name = "match"
    => LET term == sipmod64(op.items[1], op.key, m)
           sums == sumsOf(this)
           reached == {k \in 1..Len(sums) : sums[k] >= term}
       IN /\ op.ret <=> \E k \in 1..Len(sums) : sums[k] = term
          /\ op.reads <= IF reached = {} THEN Len(sums) + 1
                         ELSE CHOOSE k \in reached : \A j \in reached : k <= j

badFromItems(o) ==
  /\ o.name = "fromItems"
  /\ \/ o.P < 0
     \/ o.P > 32
     \/ keyLength(o.key) # 16
     \/ o.items = HugeItems

(***************************************************************************)
(* C5.  Invalid parameters are rejected before any work: fromItems with P  *)
(* outside 0..32, a key that is not 16 bytes long or more than 2^32 - 1    *)
(* items throws and leaves n, p, m and data as they were; matchAny with an *)
(* empty target set throws, returns nothing and reads nothing.             *)
(***************************************************************************)
C5_InvalidRejected ==
  [][/\ badFromItems(op') =>
          (op'.threw /\ n' = n /\ p' = p /\ m' = m /\ data' = data)
     /\ (op'.name = "matchAny" /\ setOf(op'.items) = {}) =>
          (op'.threw /\ op'.reads = 0 /\ n' = n /\ p' = p /\ m' = m /\ data' = data)
     /\ (op'.name = "matchAny" /\ setOf(op'.items) # {}) => ~op'.threw]_vars

C5_Witness ==
  /\ badFromItems(op) /\ op.threw
  /\ builtFromItems /\ n > 0 /\ p # op.P

(***************************************************************************)
(* C6.  Build is a function of the item set only: for a fixed P and key,   *)
(* every list with the same set of items, in any order and with any        *)
(* repetitions, gives the n, m and data the filter now holds.              *)
(***************************************************************************)
C6_SetOnly ==
  (op.name = "fromItems" /\ ~op.threw)
    => \A list \in ItemLists :
         setOf(list) = setOf(op.items)
           => LET f == fromItemsFields(op.P, op.key, list, Mobj)
              IN f.n = n /\ f.m = m /\ f.data = data

C6_Witness ==
  /\ op.name = "fromItems" /\ ~op.threw
  /\ op.items = <<2, 1>> /\ sip[1] < sip[2] /\ op.P = 1

otherFilters ==
  {[n |-> n2, p |-> p, m |-> M * n2, data |-> d2] :
     n2 \in NVals \cup {n}, d2 \in ArbBufs \cup {data, <<n>> \o data}}

(***************************************************************************)
(* C7.  Header chaining: header(prev) is the double SHA-256 of the filter  *)
(* hash joined with prev, the filter hash being the double SHA-256 of      *)
(* varint(n) || data; with the hash injective, another (n, data, prev)     *)
(* gives another header and the same ones give the same header.            *)
(***************************************************************************)
C7_HeaderChaining ==
  op.name = "header"
    => LET got == op.digest[1]
           prev == op.digest[2]
       IN /\ got = hash256(<<hash256(writeVarint(n) \o data), prev>>)
          /\ \A f \in otherFilters, prev2 \in PrevHeaders :
               (header(f, prev2) = got) <=> (f.n = n /\ f.data = data /\ prev2 = prev)

C7_Witness ==
  op.name = "header" /\ n > 0 /\ Len(data) > 0 /\ op.digest[2] = "prev32"

queryNames ==
  {"match", "matchAny", "hash", "header",
   "toBytes", "toNBytes", "toPBytes", "toNPBytes", "toRaw"}

(***************************************************************************)
(* C8.  Queries do not mutate the filter: a step of match, matchAny, hash, *)
(* header or a serializer leaves n, p, m and data as they were, and leaves *)
(* the module's EOF and M = 784931 as they were.                           *)
(***************************************************************************)
C8_QueriesDoNotMutate ==
  [][op'.name \in queryNames =>
       /\ n' = n /\ p' = p /\ m' = m /\ data' = data
       /\ EOFobj' = EOFobj /\ EOFobj' = -1
       /\ Mobj' = Mobj /\ Mobj' = 784931]_vars

C8_Witness ==
  /\ op.name = "match" /\ op.reads > 1 /\ ~op.ret
  /\ n > 0 /\ Len(data) > 0


\* the reduced hashes of the items the filter was built from
hashesOf(items, key) == {sipmod64(x, key, m) : x \in items}
nonDecreasing(list) == \A i \in 1..(Len(list) - 1) : list[i] <= list[i + 1]

(***************************************************************************)
(* C11.  Round trip of the delta stream: on a filter built by fromItems,   *)
(* the entries readU64 decodes from data up to the end of the stream have  *)
(* non-decreasing running sums, and the set of these sums is the set of    *)
(* the reduced hashes of the items; the zero bits padding the last byte    *)
(* add no other value.                                                     *)
(***************************************************************************)
C11_DeltaStreamRoundTrip ==
  builtFromItems
    => /\ nonDecreasing(sumsOf(this))
       /\ setOf(sumsOf(this)) = hashesOf(built.items, built.key)

\* two hashes apart, and padding bits that decode as further entries
C11_Witness ==
  /\ builtFromItems /\ p >= 1 /\ n = 2
  /\ Cardinality(hashesOf(built.items, built.key)) = 2
  /\ Len(sumsOf(this)) > n

(***************************************************************************)
(* C12.  Queries always terminate with a boolean: on a filter loaded from  *)
(* any buffer with any N and P, a started match or matchAny call with a    *)
(* non-empty target set comes to its end; it ends without an error, and    *)
(* when the reader ran out of data, in the run of 1 bits or in the         *)
(* remainder field, it returns false.                                      *)
(***************************************************************************)
C12_QueriesTerminate ==
  /\ [](q.pc = "done" /\ q.error # "assert"
          => /\ q.error = "none"
             /\ q.ret \in BOOLEAN
             /\ q.eof # "none" => q.ret = FALSE)
  /\ (q.pc = "running") ~> (q.pc = "done")

\* a matchAny call on loaded bytes that read entries and then ran out of
\* data inside the run of 1 bits
C12_Witness ==
  /\ built.how = "bytes" /\ q.pc = "done" /\ q.kind = "matchAny"
  /\ q.eof = "unary" /\ q.reads > 1 /\ ~q.ret

(***************************************************************************)
(* C13.  The rescan job settles exactly once: the promise of watchUntil is *)
(* resolved or rejected at most once, once rescanJob is null again it was  *)
(* settled exactly once, and no watchBlock call reads rescanJob.height or  *)
(* calls rescanJob.reject on a null rescanJob.                             *)
(***************************************************************************)
C13_RescanSettlesOnce ==
  /\ promise.resolves + promise.rejects <= 1
  /\ (promise.installed /\ ~rescanJob.job) => promise.resolves + promise.rejects = 1
  /\ faults.height = 0 /\ faults.reject = 0

=============================================================================
